---- MODULE Spec2Model ----
(***************************************************************************)
(* Model of goodrxapp.py: the deterministic pricing functions, the keyword *)
(* context inferencer, and the chat / voice tab handlers over the          *)
(* Streamlit session state.                                                *)
(*                                                                         *)
(* Money is an integer number of mills (1/1000 USD), so 29.0 USD is 29000; *)
(* round(x, 2) rounds a mill amount to a multiple of 10.  The amounts of   *)
(* the program are binary doubles: an amount that is not a decimal tie     *)
(* rounds as its decimal value does; an amount whose decimal value lies    *)
(* exactly half a cent between two cents rounds to the side on which its   *)
(* double lies, which fp_side records per rounding.                        *)
(*                                                                         *)
(* A text is a sequence of tokens.  A token is an indivisible chunk of     *)
(* characters: a keyword fragment ("diabetes", "bp", "blood", ...), its    *)
(* capitalised spelling ("Diabetes", "BP", ...), a space " ", a newline    *)
(* "\n", a colon ":", a role name, or "x" for any other run of characters  *)
(* that holds no keyword.  Substring search is search for a contiguous     *)
(* run of tokens.                                                          *)
(***************************************************************************)
EXTENDS Integers, Sequences, FiniteSets, TLC

VARIABLES
    chat_display,   \* st.session_state.chat_display: sequence of <<role, text>>
    chat_session,   \* st.session_state.chat_session: history of the model session
    voice_display,  \* st.session_state.voice_display
    voice_session,  \* st.session_state.voice_session
    pc,             \* position of the running script in the chat input handler
    chat_user,      \* local chat_user of the chat input handler
    dynamic_ctx,    \* local dynamic_ctx of the chat input handler
    payload,        \* local payload of the chat input handler
    resp,           \* outcome of send_message in the running chat turn
    last_turn,      \* history: the inputs of the previous turn's inference
    last_op,        \* history: the handler that ran last
    turns,          \* history: chat turns since the transcript was last replaced
    fn_args,        \* arguments of a call of a pure function
    fn_ret,         \* its outcome
    fp_side         \* per double of savings_vs_current: the side of its decimal
                    \* value on which the double lies

vars == <<chat_display, chat_session, voice_display, voice_session, pc, chat_user,
          dynamic_ctx, payload, resp, last_turn, last_op, turns, fn_args, fn_ret,
          fp_side>>

ui_vars == <<chat_display, chat_session, voice_display, voice_session, pc, chat_user,
             dynamic_ctx, payload, resp, last_turn, last_op, turns>>

-----------------------------------------------------------------------------
(* Bounds *)

MaxSel == 2        \* longest plan list passed to the pricing functions
MaxTextLen == 3    \* tokens in user_text and history_text together
MaxTurns == 2      \* chat turns between two replacements of the transcript
MaxVoiceLen == 1   \* entries of the voice transcript before the last voice turn

-----------------------------------------------------------------------------
(* Catalog *)

CATALOG ==
    [plans |-> [p \in {"Diabetes Care", "Heart Health"} |->
                    IF p = "Diabetes Care" THEN [monthly_price |-> 29000]
                                           ELSE [monthly_price |-> 25000]],
     bundle_rules |-> [any_two_plans_discount_pct |-> 10],
     demo_patient |-> [current_spend |->
                          [c \in {"Metformin", "ACE_inhibitor"} |->
                              IF c = "Metformin" THEN 42000 ELSE 20000]]]

\* An exception leaving a function is the record [raised |-> kind].
Raised(kind) == [raised |-> kind]

IsRaised(r) == "raised" \in DOMAIN r

\* A returned number is the record [value |-> n].
Value(n) == [value |-> n]

-----------------------------------------------------------------------------
(* Arithmetic *)

\* n / d rounded to the nearest integer, ties to the even one (d > 0).
RoundDiv(n, d) ==
    LET q == n \div d
        r == n % d
    IN  IF 2 * r < d THEN q
        ELSE IF 2 * r > d THEN q + 1
        ELSE IF q % 2 = 0 THEN q ELSE q + 1

\* round(x, 2) of an amount in mills that is no decimal tie of a double of
\* unknown side (a multiple of 2 mills never ends in 5).
Round2(x) == RoundDiv(x, 10) * 10

\* The doubles of savings_vs_current whose side is not fixed by the model:
\* current, a new_monthly other than 48.6, and current - new_monthly.
RoundingSites == {"current", "new_monthly", "difference"}

Sides == {"below", "above"}

\* round(x, 2) of an amount in mills whose double lies on `side` of it when
\* it is a decimal tie.
Round2Side(x, side) ==
    IF x % 10 = 5
    THEN (IF side = "above" THEN (x \div 10) + 1 ELSE x \div 10) * 10
    ELSE Round2(x)

Max(a, b) == IF a >= b THEN a ELSE b

-----------------------------------------------------------------------------
(* bundle_price *)

\* Mutant: an unknown name contributes nothing to the sum.
RECURSIVE SumPrices_skip_unknown(_)
SumPrices_skip_unknown(plan_names) ==
    IF plan_names = << >> THEN Value(0)
    ELSE LET rest == SumPrices_skip_unknown(Tail(plan_names))
             here == IF Head(plan_names) \in DOMAIN CATALOG.plans
                     THEN CATALOG.plans[Head(plan_names)].monthly_price ELSE 0
         IN  Value(here + rest.value)

RECURSIVE SumPrices(_)
\* sum(CATALOG["plans"][p]["monthly_price"] for p in plan_names): the lookup
\* of a name that is no key of the catalog raises KeyError.
SumPrices(plan_names) ==
    IF plan_names = << >> THEN Value(0)
    ELSE IF Head(plan_names) \notin DOMAIN CATALOG.plans THEN Raised("KeyError")
    ELSE LET rest == SumPrices(Tail(plan_names))
         IN  IF IsRaised(rest) THEN rest
             ELSE Value(CATALOG.plans[Head(plan_names)].monthly_price + rest.value)

\* Mutant: the discount applies from the first plan on.
bundle_price_discount_one(plan_names) ==
    IF plan_names = << >> THEN Value(0)
    ELSE LET base == SumPrices(plan_names)
         IN  IF IsRaised(base) THEN base
             ELSE Value(RoundDiv(base.value
                                 * (100 - CATALOG.bundle_rules.any_two_plans_discount_pct),
                                 1000) * 10)

bundle_price(plan_names) ==
    IF plan_names = << >> THEN Value(0)
    ELSE LET base == SumPrices(plan_names)
             discount_pct == IF Len(plan_names) >= 2
                             THEN CATALOG.bundle_rules.any_two_plans_discount_pct
                             ELSE 0
         IN  IF IsRaised(base) THEN base
             \* base * (1 - discount_pct / 100.0), rounded to cents
             ELSE Value(RoundDiv(base.value * (100 - discount_pct), 1000) * 10)

-----------------------------------------------------------------------------
(* savings_vs_current *)

InList(x, list) == \E i \in 1..Len(list) : list[i] = x

\* current_spend_map.get(key, 0.0)
Get(map, key) == IF key \in DOMAIN map THEN map[key] ELSE 0

\* current, as accumulated by the two membership tests.
CurrentSpend(selected_plans, current_spend_map) ==
    (IF InList("Diabetes Care", selected_plans)
     THEN Get(current_spend_map, "Metformin") ELSE 0)
    + (IF InList("Heart Health", selected_plans)
       THEN Get(current_spend_map, "ACE_inhibitor") ELSE 0)

\* An amount that is a multiple of 1/8 USD is a double exactly.
ExactDouble(x) == x % 125 = 0

\* The side of its decimal value on which the double new_monthly lies: the
\* double 48.6 is 48.600000000000001421...
NewMonthlySide(new_monthly) ==
    IF new_monthly = 48600 THEN "above" ELSE fp_side["new_monthly"]

\* The side of the double current - new_monthly.  Subtracting an exact double
\* is exact and keeps the side of current; subtracting a double that lies
\* above its decimal moves the difference down, one that lies below moves
\* it up.
DifferenceSide(new_monthly) ==
    IF ExactDouble(new_monthly) THEN fp_side["current"]
    ELSE IF NewMonthlySide(new_monthly) = "above"
    THEN (IF fp_side["current"] = "below" THEN "below" ELSE fp_side["difference"])
    ELSE (IF fp_side["current"] = "above" THEN "above" ELSE fp_side["difference"])

\* Mutant: the savings are not floored at zero.
MonthlySavings_unclamped(current, new_monthly) ==
    Round2Side(current - new_monthly, DifferenceSide(new_monthly))

\* monthly_savings = round(max(current - new_monthly, 0.0), 2)
MonthlySavings(current, new_monthly) ==
    Round2Side(Max(current - new_monthly, 0), DifferenceSide(new_monthly))

\* Mutant: the annual figure is taken from the unrounded monthly difference.
AnnualSavings_unrounded(current, new_monthly) ==
    Round2(Max(current - new_monthly, 0) * 12)

\* annual_savings = round(monthly_savings * 12, 2)
AnnualSavings(current, new_monthly) ==
    Round2(MonthlySavings(current, new_monthly) * 12)

savings_vs_current(selected_plans, current_spend_map) ==
    LET current == CurrentSpend(selected_plans, current_spend_map)
        new_monthly == bundle_price(selected_plans)
    IN  IF IsRaised(new_monthly) THEN new_monthly
        ELSE [current_monthly |-> Round2Side(current, fp_side["current"]),
              new_monthly |-> new_monthly.value,
              monthly_savings |-> MonthlySavings(current, new_monthly.value),
              annual_savings |-> AnnualSavings(current, new_monthly.value)]

-----------------------------------------------------------------------------
(* Texts *)

\* str.lower() on one token.
LowerTok(t) ==
    CASE t = "Diabetes" -> "diabetes"
      [] t = "Metformin" -> "metformin"
      [] t = "Blood" -> "blood"
      [] t = "BP" -> "bp"
      [] t = "ACE" -> "ace"
      [] t = "Heart" -> "heart"
      [] t = "Bundle" -> "bundle"
      [] t = "Both" -> "both"
      [] t = "Together" -> "together"
      [] t = "X" -> "x"
      [] OTHER -> t

\* str.lower()
Lower(text) == [i \in 1..Len(text) |-> LowerTok(text[i])]

\* kw in text
Contains(kw, text) ==
    \E i \in 1..(Len(text) - Len(kw) + 1) :
        \A j \in 1..Len(kw) : text[i + j - 1] = kw[j]

\* ("diabetes" in text) or ("metformin" in text)
want_diabetes(text) ==
    Contains(<<"diabetes">>, text) \/ Contains(<<"metformin">>, text)

\* ("blood pressure" in text) or (" bp " in text) or ("ace" in text) or ("heart" in text)
want_heart(text) ==
    \/ Contains(<<"blood", " ", "pressure">>, text)
    \/ Contains(<<" ", "bp", " ">>, text)
    \/ Contains(<<"ace">>, text)
    \/ Contains(<<"heart">>, text)

\* "bundle" in text or "both" in text or "together" in text
want_bundle(text) ==
    Contains(<<"bundle">>, text) \/ Contains(<<"both">>, text)
        \/ Contains(<<"together">>, text)

EmptyDict == [k \in {} |-> 0]

\* Mutant: one append per matching keyword.
SelectedPlans_per_keyword(text) ==
    (IF Contains(<<"diabetes">>, text) THEN <<"Diabetes Care">> ELSE << >>)
    \o (IF Contains(<<"metformin">>, text) THEN <<"Diabetes Care">> ELSE << >>)
    \o (IF want_heart(text) THEN <<"Heart Health">> ELSE << >>)

\* selected, after the two conditional appends.
SelectedPlans(text) ==
    (IF want_diabetes(text) THEN <<"Diabetes Care">> ELSE << >>)
    \o (IF want_heart(text) THEN <<"Heart Health">> ELSE << >>)

\* Mutant: the bundle quote is added only when the selection is not already
\* the whole catalog.
BundleQuotes_unless_both(text, selected) ==
    IF want_bundle(text) /\ Len(selected) < 2
    THEN LET both == <<"Diabetes Care", "Heart Health">>
         IN  ("bundle_quote" :> savings_vs_current(both, CATALOG.demo_patient.current_spend))
             @@ ("bundle_plans" :> both)
    ELSE EmptyDict

\* The entries the bundle branch adds to ctx["quotes"].
BundleQuotes(text, selected) ==
    IF want_bundle(text)
    THEN LET both == <<"Diabetes Care", "Heart Health">>
         IN  ("bundle_quote" :> savings_vs_current(both, CATALOG.demo_patient.current_spend))
             @@ ("bundle_plans" :> both)
    ELSE EmptyDict

infer_dynamic_context(user_text, history_text) ==
    LET text == Lower(user_text \o <<" ">> \o history_text)
        selected == SelectedPlans(text)
        quote == savings_vs_current(selected, CATALOG.demo_patient.current_spend)
        bundle == BundleQuotes(text, selected)
    IN  IF selected # << >> /\ IsRaised(quote) THEN quote
        ELSE IF "bundle_quote" \in DOMAIN bundle /\ IsRaised(bundle["bundle_quote"])
        THEN bundle["bundle_quote"]
        ELSE [selected_plans |-> selected,
              quotes |-> (IF selected # << >>
                          THEN ("selected_plans_quote" :> quote) ELSE EmptyDict)
                         @@ bundle]

RECURSIVE JoinLines(_)
\* "\n".join(lines)
JoinLines(lines) ==
    IF lines = << >> THEN << >>
    ELSE IF Len(lines) = 1 THEN lines[1]
    ELSE lines[1] \o <<"\n">> \o JoinLines(Tail(lines))

\* f"{r}: {t}"
EntryLine(entry) == <<entry[1], ":", " ">> \o entry[2]

\* Mutant: only the latest entry is rendered.
history_to_text_latest(display_history) ==
    IF display_history = << >> THEN << >>
    ELSE EntryLine(display_history[Len(display_history)])

history_to_text(display_history) ==
    JoinLines([i \in 1..Len(display_history) |-> EntryLine(display_history[i])])

-----------------------------------------------------------------------------
(* Session state and the remote model *)

\* st.session_state after the first script run: both sessions are
\* start_chat(history=[]), both transcripts are [].
NoValue == [none |-> TRUE]

UIInit ==
    /\ chat_display = << >>
    /\ chat_session = << >>
    /\ voice_display = << >>
    /\ voice_session = << >>
    /\ pc = "idle"
    /\ chat_user = << >>
    /\ dynamic_ctx = NoValue
    /\ payload = NoValue
    /\ resp = NoValue
    /\ last_turn = NoValue
    /\ last_op = "start"
    /\ turns = 0

-----------------------------------------------------------------------------
(* Chat tab *)

\* What the user may type into the chat input (never the empty string).
ChatInputs == {<<"x">>, <<"x", " ", "bp">>, <<"Diabetes">>}

\* resp.text of a reply of the remote model; << >> is the empty text.
RemoteReplies == {<<"Both">>, << >>}

\* str(e) of an exception raised by send_message.
RemoteErrors == {<<"x">>}

\* The outcomes of one send_message call.
RemoteOutcomes ==
    {[text |-> t] : t \in RemoteReplies} \cup {Raised(e) : e \in RemoteErrors}

\* The scripted conversation of "Load scripted demo".
Scripted ==
    << <<"user", <<"x", " ", "diabetes", " ", "x">> >>,
       <<"assistant", <<"x", " ", "Metformin", "x", " ", "Diabetes", " ", "x", " ",
                        "Metformin", " ", "x">> >>,
       <<"user", <<"x">> >>,
       <<"assistant", <<"x">> >>,
       <<"user", <<"x", " ", "blood", " ", "pressure", "x">> >>,
       <<"assistant", <<"x", " ", "Heart", " ", "x", " ", "ACE", " ", "x", " ", "BP",
                        " ", "x", " ", "both", " ", "bundle", "x", " ", "together",
                        " ", "x">> >>,
       <<"user", <<"x">> >>,
       <<"assistant", <<"x", " ", "Diabetes", " ", "x", " ", "Heart", " ", "x", " ",
                        "together", " ", "x", " ", "bundle", " ", "x">> >> >>

\* ai_text = resp.text or "(No response)", or the error text of the except
\* branch, which starts with `prefix`.
AiText(outcome, prefix) ==
    IF IsRaised(outcome) THEN <<prefix, ":", " ">> \o outcome.raised
    ELSE IF outcome.text = << >> THEN <<"(No response)">>
    ELSE outcome.text

\* session.send_message(message): a reply extends the session's history, an
\* exception leaves it as it was.
SendMessage(session, message, outcome) ==
    IF IsRaised(outcome) THEN session
    ELSE Append(session, [sent |-> message, reply |-> outcome.text])

\* "Load scripted demo"
LoadScripted ==
    /\ pc = "idle"
    /\ chat_session' = << >>
    /\ chat_display' = Scripted
    /\ turns' = 0
    /\ last_turn' = NoValue
    /\ last_op' = "load_scripted"
    /\ UNCHANGED <<voice_display, voice_session, pc, chat_user, dynamic_ctx, payload,
                   resp, fn_args, fn_ret,
                   fp_side>>

\* Mutant: the button clears the transcript and keeps the model session.
ResetChat_keep_session ==
    /\ pc = "idle"
    /\ chat_display' = << >>
    /\ turns' = 0
    /\ last_turn' = NoValue
    /\ last_op' = "reset_chat"
    /\ UNCHANGED <<chat_session, voice_display, voice_session, pc, chat_user,
                   dynamic_ctx, payload, resp, fn_args, fn_ret,
                   fp_side>>

\* "Reset chat"
ResetChat ==
    /\ pc = "idle"
    /\ chat_session' = << >>
    /\ chat_display' = << >>
    /\ turns' = 0
    /\ last_turn' = NoValue
    /\ last_op' = "reset_chat"
    /\ UNCHANGED <<voice_display, voice_session, pc, chat_user, dynamic_ctx, payload,
                   resp, fn_args, fn_ret,
                   fp_side>>

\* Chat input, first step: the message is appended to the transcript.
ChatSubmit(msg) ==
    /\ pc = "idle"
    /\ turns < MaxTurns
    /\ chat_display' = Append(chat_display, <<"user", msg>>)
    /\ chat_user' = msg
    /\ pc' = "infer"
    /\ turns' = turns + 1
    /\ last_op' = "chat"
    /\ UNCHANGED <<chat_session, voice_display, voice_session, dynamic_ctx, payload,
                   resp, last_turn, fn_args, fn_ret,
                   fp_side>>

\* The context the handler infers for the running turn.
TurnContext ==
    infer_dynamic_context(chat_user, history_to_text(chat_display))

\* Mutant: the context of the previous turn is reused when there is one.
ChatInfer_stale ==
    /\ pc = "infer"
    /\ dynamic_ctx' = IF last_turn = NoValue THEN TurnContext
                      ELSE infer_dynamic_context(last_turn.user_text,
                                                 last_turn.history_text)
    /\ payload' = [catalog |-> CATALOG, context |-> dynamic_ctx',
                   user_message |-> chat_user]
    /\ pc' = "send"
    /\ UNCHANGED <<chat_display, chat_session, voice_display, voice_session, chat_user,
                   resp, last_turn, last_op, turns, fn_args, fn_ret,
                   fp_side>>

\* Chat input, second step: the context is inferred and the payload built.
\* An exception of the inference ends the script run before the remote call.
ChatInfer ==
    /\ pc = "infer"
    /\ IF IsRaised(TurnContext)
       THEN /\ pc' = "idle"
            /\ chat_user' = << >>
            /\ UNCHANGED <<dynamic_ctx, payload>>
       ELSE /\ dynamic_ctx' = TurnContext
            /\ payload' = [catalog |-> CATALOG, context |-> dynamic_ctx',
                           user_message |-> chat_user]
            /\ pc' = "send"
            /\ UNCHANGED chat_user
    /\ UNCHANGED <<chat_display, chat_session, voice_display, voice_session,
                   resp, last_turn, last_op, turns, fn_args, fn_ret,
                   fp_side>>

\* Chat input, third step: the remote call returns a reply or raises.
ChatSend ==
    /\ pc = "send"
    /\ \E outcome \in RemoteOutcomes :
          /\ resp' = outcome
          /\ chat_session' = SendMessage(chat_session, payload, outcome)
    /\ pc' = "reply"
    /\ UNCHANGED <<chat_display, voice_display, voice_session, chat_user, dynamic_ctx,
                   payload, last_turn, last_op, turns, fn_args, fn_ret,
                   fp_side>>

\* Mutant: a failed call ends the turn without an assistant entry.
ChatReply_drop_on_error ==
    /\ pc = "reply"
    /\ chat_display' = IF IsRaised(resp) THEN chat_display
                       ELSE Append(chat_display,
                                   <<"assistant", AiText(resp, "Error calling Gemini")>>)
    /\ last_turn' = [user_text |-> chat_user,
                     history_text |-> history_to_text(chat_display)]
    /\ last_op' = IF IsRaised(resp) THEN "chat_error" ELSE "chat_reply"
    /\ pc' = "idle"
    /\ chat_user' = << >>
    /\ dynamic_ctx' = NoValue
    /\ payload' = NoValue
    /\ resp' = NoValue
    /\ UNCHANGED <<chat_session, voice_display, voice_session, turns, fn_args, fn_ret,
                   fp_side>>

\* Chat input, last step: ai_text is appended as the assistant's entry and
\* the script run ends.
ChatReply ==
    /\ pc = "reply"
    /\ chat_display' = Append(chat_display,
                              <<"assistant", AiText(resp, "Error calling Gemini")>>)
    /\ last_turn' = [user_text |-> chat_user,
                     history_text |-> history_to_text(chat_display)]
    /\ last_op' = IF IsRaised(resp) THEN "chat_error" ELSE "chat_reply"
    /\ pc' = "idle"
    /\ chat_user' = << >>
    /\ dynamic_ctx' = NoValue
    /\ payload' = NoValue
    /\ resp' = NoValue
    /\ UNCHANGED <<chat_session, voice_display, voice_session, turns, fn_args, fn_ret,
                   fp_side>>

-----------------------------------------------------------------------------
(* Voice tab *)

\* What the user may type into the voice tab's text input.
VoiceInputs == {<<"x">>}

\* The recordings the microphone widget may return.
AudioInputs == {"wav"}

\* The outcomes of one send_message call of the voice session.
VoiceOutcomes == {[text |-> <<"x">>], [text |-> << >>]} \cup {Raised(e) : e \in RemoteErrors}

\* The reminder sent along with every recording.
Guidance == <<"x">>

\* "Start over (Voice)"
ResetVoice ==
    /\ pc = "idle"
    /\ voice_session' = << >>
    /\ voice_display' = << >>
    /\ last_op' = "reset_voice"
    /\ UNCHANGED <<chat_display, chat_session, pc, chat_user, dynamic_ctx, payload,
                   resp, last_turn, turns, fn_args, fn_ret,
                   fp_side>>

\* A recording: the reply (or the error text) is appended as the assistant's
\* entry; no user entry is appended.
VoiceAudio(audio_bytes) ==
    /\ pc = "idle"
    /\ Len(voice_display) < MaxVoiceLen
    /\ \E outcome \in VoiceOutcomes :
          /\ voice_session' =
                SendMessage(voice_session,
                            <<Guidance, [mime_type |-> "audio/wav", data |-> audio_bytes]>>,
                            outcome)
          /\ voice_display' =
                Append(voice_display,
                       <<"assistant", AiText(outcome, "Error calling Gemini with audio")>>)
    /\ last_op' = "voice_audio"
    /\ UNCHANGED <<chat_display, chat_session, pc, chat_user, dynamic_ctx, payload,
                   resp, last_turn, turns, fn_args, fn_ret,
                   fp_side>>

\* The text input of the voice tab: the user entry, the remote call, the
\* assistant entry.
VoiceText(voice_text) ==
    /\ pc = "idle"
    /\ Len(voice_display) < MaxVoiceLen
    /\ \E outcome \in VoiceOutcomes :
          /\ voice_session' = SendMessage(voice_session, voice_text, outcome)
          /\ voice_display' =
                voice_display \o << <<"user", voice_text>>,
                                    <<"assistant", AiText(outcome, "Error calling Gemini")>> >>
    /\ last_op' = "voice_text"
    /\ UNCHANGED <<chat_display, chat_session, pc, chat_user, dynamic_ctx, payload,
                   resp, last_turn, turns, fn_args, fn_ret,
                   fp_side>>

-----------------------------------------------------------------------------
(* The application *)

Init ==
    /\ UIInit
    /\ fn_args = NoValue
    /\ fn_ret = NoValue
    /\ fp_side = [site \in RoundingSites |-> "below"]

Next ==
    \/ LoadScripted
    \/ ResetChat
    \/ \E msg \in ChatInputs : ChatSubmit(msg)
    \/ ChatInfer
    \/ ChatSend
    \/ ChatReply
    \/ ResetVoice
    \/ \E audio_bytes \in AudioInputs : VoiceAudio(audio_bytes)
    \/ \E voice_text \in VoiceInputs : VoiceText(voice_text)

Spec == Init /\ [][Next]_vars

-----------------------------------------------------------------------------
(* Pure-function harness: pricing *)

PlanNames == {"Diabetes Care", "Heart Health", "Acne Care"}

Selections == UNION {[1..n -> PlanNames] : n \in 0..MaxSel}

SpendValues == {0, 20000, 28655, 29004, 48606}

SpendMaps ==
    UNION {[cats -> SpendValues] : cats \in SUBSET {"Metformin", "ACE_inhibitor"}}

InitPricing ==
    /\ UIInit
    /\ fn_args \in [plan_names : Selections, current_spend_map : SpendMaps]
    /\ fp_side \in [RoundingSites -> Sides]
    /\ fn_ret = [fn |-> "pending"]

CallBundlePrice ==
    /\ fn_ret.fn = "pending"
    /\ "plan_names" \in DOMAIN fn_args
    /\ fn_ret' = [fn |-> "bundle_price", out |-> bundle_price(fn_args.plan_names)]
    /\ UNCHANGED <<ui_vars, fn_args, fp_side>>

CallSavingsVsCurrent ==
    /\ fn_ret.fn = "pending"
    /\ "plan_names" \in DOMAIN fn_args
    /\ fn_ret' = [fn |-> "savings_vs_current",
                  out |-> savings_vs_current(fn_args.plan_names,
                                             fn_args.current_spend_map)]
    /\ UNCHANGED <<ui_vars, fn_args, fp_side>>

NextPricing == CallBundlePrice \/ CallSavingsVsCurrent

SpecPricing == InitPricing /\ [][NextPricing]_vars

-----------------------------------------------------------------------------
(* Pure-function harness: inference *)

Alphabet ==
    {"Diabetes", "metformin", "blood", "pressure", "bp", "ACE", "heart",
     "bundle", "Both", "together", " ", "x"}

InitInfer ==
    /\ UIInit
    /\ \E n \in 0..MaxTextLen : \E m \in 0..(MaxTextLen - n) :
          fn_args \in [user_text : [1..n -> Alphabet],
                       history_text : [1..m -> Alphabet]]
    /\ fn_ret = [fn |-> "pending"]
    /\ fp_side = [site \in RoundingSites |-> "below"]

CallInferDynamicContext ==
    /\ fn_ret.fn = "pending"
    /\ "user_text" \in DOMAIN fn_args
    /\ fn_ret' = [fn |-> "infer_dynamic_context",
                  out |-> infer_dynamic_context(fn_args.user_text,
                                                fn_args.history_text)]
    /\ UNCHANGED <<ui_vars, fn_args, fp_side>>

NextInfer == CallInferDynamicContext

SpecInfer == InitInfer /\ [][NextInfer]_vars

-----------------------------------------------------------------------------
(* Claims about the pricing functions (checked under SpecPricing) *)

SavingsReturned ==
    fn_ret.fn = "savings_vs_current" /\ ~IsRaised(fn_ret.out)

CatalogSelection ==
    \A i \in 1..Len(fn_args.plan_names) : fn_args.plan_names[i] \in DOMAIN CATALOG.plans

DistinctSelection ==
    \A i, j \in 1..Len(fn_args.plan_names) :
        fn_args.plan_names[i] = fn_args.plan_names[j] => i = j

\* C1 as claimed: every quote savings_vs_current returns has
\* monthly_savings >= 0, equal to max(current_monthly - new_monthly, 0): a
\* bundle that costs more than the baseline spend is reported as savings of
\* 0, never as a negative number.
C1_SavingsNeverNegative ==
    SavingsReturned =>
        /\ fn_ret.out.monthly_savings >= 0
        /\ fn_ret.out.monthly_savings
              = Max(fn_ret.out.current_monthly - fn_ret.out.new_monthly, 0)

Abs(x) == IF x >= 0 THEN x ELSE 0 - x

\* C1 amended: monthly_savings >= 0 in every quote, and 0 when the bundle
\* costs at least the baseline spend; it equals
\* max(current_monthly - new_monthly, 0) whenever the summed baseline spend is
\* not exactly half a cent between two cents, and is within one cent of it
\* otherwise.
C1_SavingsNeverNegativeAmended ==
    SavingsReturned =>
        LET out == fn_ret.out
            current == CurrentSpend(fn_args.plan_names, fn_args.current_spend_map)
            reported == Max(out.current_monthly - out.new_monthly, 0)
        IN  /\ out.monthly_savings >= 0
            /\ current <= out.new_monthly => out.monthly_savings = 0
            /\ current % 10 # 5 => out.monthly_savings = reported
            /\ Abs(out.monthly_savings - reported) <= 10

\* C1 witness: both plans quoted against a map that lacks a spend category
\* and holds a spend below the bundle price; the savings are 0.
C1_Witness ==
    /\ SavingsReturned
    /\ fn_args.plan_names = <<"Diabetes Care", "Heart Health">>
    /\ DOMAIN fn_args.current_spend_map = {"Metformin"}
    /\ fn_ret.out.current_monthly = 20000
    /\ fn_ret.out.new_monthly = 48600
    /\ fn_ret.out.monthly_savings = 0

\* C2: bundle_price of a selection of distinct catalog plans is 0 for the
\* empty selection, the plan's own monthly price for one plan, and the sum
\* less 10% for two plans (29.0 and 25.0 give 48.6).
C2_BundlePrice ==
    (fn_ret.fn = "bundle_price" /\ CatalogSelection /\ DistinctSelection) =>
        LET names == fn_args.plan_names
        IN  /\ ~IsRaised(fn_ret.out)
            /\ Len(names) = 0 => fn_ret.out.value = 0
            /\ Len(names) = 1 =>
                  fn_ret.out.value = CATALOG.plans[names[1]].monthly_price
            /\ Len(names) = 2 =>
                  /\ 100 * fn_ret.out.value
                        = 90 * (CATALOG.plans[names[1]].monthly_price
                                + CATALOG.plans[names[2]].monthly_price)
                  /\ fn_ret.out.value = 48600

\* C2 witness: the two-plan selection priced at 48.6.
C2_Witness ==
    /\ fn_ret.fn = "bundle_price"
    /\ fn_args.plan_names = <<"Heart Health", "Diabetes Care">>
    /\ fn_ret.out = Value(48600)

C7_UnknownPlanRaises ==
    (fn_ret.fn \in {"bundle_price", "savings_vs_current"} /\ ~CatalogSelection) =>
        fn_ret.out = Raised("KeyError")

\* C7 witness: savings_vs_current on a known plan followed by an unknown one.
C7_Witness ==
    /\ fn_ret.fn = "savings_vs_current"
    /\ fn_args.plan_names = <<"Diabetes Care", "Acne Care">>
    /\ IsRaised(fn_ret.out)

-----------------------------------------------------------------------------
(* Claims about infer_dynamic_context (checked under SpecInfer) *)

DiabetesKeywords == {<<"diabetes">>, <<"metformin">>}

HeartKeywords == {<<"blood", " ", "pressure">>, <<" ", "bp", " ">>, <<"ace">>, <<"heart">>}

BundleKeywords == {<<"bundle">>, <<"both">>, <<"together">>}

\* The case-folded concatenation the claims speak of, written out token by
\* token from the arguments of the call.
FoldedText ==
    LET joined == fn_args.user_text \o <<" ">> \o fn_args.history_text
    IN  [i \in 1..Len(joined) |->
            CASE joined[i] = "Diabetes" -> "diabetes"
              [] joined[i] = "ACE" -> "ace"
              [] joined[i] = "Both" -> "both"
              [] OTHER -> joined[i]]

Occurs(keywords) == \E kw \in keywords : Contains(kw, FoldedText)

Count(x, list) == Cardinality({i \in 1..Len(list) : list[i] = x})

InferReturned == fn_ret.fn = "infer_dynamic_context"

\* C5: "Diabetes Care" is selected exactly when one of its keywords occurs in
\* the case-folded text, "Heart Health" exactly when one of its keywords
\* occurs, each at most once; a selected_plans_quote exists exactly when the
\* selection is non-empty; with no keyword at all the result is the empty
\* selection with no quotes; the function never fails.
C5_KeywordSelection ==
    InferReturned =>
        LET out == fn_ret.out
        IN  /\ ~IsRaised(out)
            /\ Count("Diabetes Care", out.selected_plans)
                  = (IF Occurs(DiabetesKeywords) THEN 1 ELSE 0)
            /\ Count("Heart Health", out.selected_plans)
                  = (IF Occurs(HeartKeywords) THEN 1 ELSE 0)
            /\ Len(out.selected_plans)
                  = Count("Diabetes Care", out.selected_plans)
                    + Count("Heart Health", out.selected_plans)
            /\ ("selected_plans_quote" \in DOMAIN out.quotes)
                  <=> (out.selected_plans # << >>)
            /\ (~Occurs(DiabetesKeywords) /\ ~Occurs(HeartKeywords)
                    /\ ~Occurs(BundleKeywords))
                  => (out.selected_plans = << >> /\ DOMAIN out.quotes = {})

\* C5 witness: two diabetes keywords, one of them capitalised, select the
\* plan once and yield a selected_plans_quote and no bundle_quote.
C5_Witness ==
    /\ InferReturned
    /\ fn_args.user_text = <<"Diabetes", " ", "metformin">>
    /\ fn_ret.out.selected_plans = <<"Diabetes Care">>
    /\ DOMAIN fn_ret.out.quotes = {"selected_plans_quote"}

\* The text with every bundle keyword replaced by a word that is no keyword.
StripBundle(text) ==
    [i \in 1..Len(text) |->
        IF LowerTok(text[i]) \in {"bundle", "both", "together"} THEN "x" ELSE text[i]]

\* C6: a bundle_quote over the whole catalog is present exactly when a bundle
\* keyword occurs, whatever the per-plan selection is; the selection and the
\* selected_plans_quote are what they are for the same text without the
\* bundle keyword.
C6_BundleIndependent ==
    InferReturned =>
        LET out == fn_ret.out
            plain == infer_dynamic_context(StripBundle(fn_args.user_text),
                                           StripBundle(fn_args.history_text))
        IN  /\ ("bundle_quote" \in DOMAIN out.quotes) <=> Occurs(BundleKeywords)
            /\ ("bundle_plans" \in DOMAIN out.quotes) <=> Occurs(BundleKeywords)
            /\ Occurs(BundleKeywords) =>
                  /\ out.quotes["bundle_plans"] = <<"Diabetes Care", "Heart Health">>
                  /\ {out.quotes["bundle_plans"][i] : i \in 1..2} = DOMAIN CATALOG.plans
                  /\ out.quotes["bundle_quote"]
                        = [current_monthly |-> 62000, new_monthly |-> 48600,
                           monthly_savings |-> 13400, annual_savings |-> 160800]
            /\ out.selected_plans = plain.selected_plans
            /\ \A k \in {"selected_plans_quote"} :
                  /\ (k \in DOMAIN out.quotes) <=> (k \in DOMAIN plain.quotes)
                  /\ (k \in DOMAIN out.quotes) => out.quotes[k] = plain.quotes[k]

\* C6 witness: both plans are already selected by their own keywords and a
\* bundle keyword occurs too.
C6_Witness ==
    /\ InferReturned
    /\ fn_args.user_text = <<"bundle">>
    /\ fn_args.history_text = <<"Diabetes", "heart">>
    /\ fn_ret.out.selected_plans = <<"Diabetes Care", "Heart Health">>
    /\ DOMAIN fn_ret.out.quotes = {"selected_plans_quote", "bundle_quote", "bundle_plans"}

-----------------------------------------------------------------------------
(* Claims about the chat and voice handlers (checked under Spec) *)

LastEntry(display) == display[Len(display)]

\* The entries of the transcript that no chat turn appended.
BaseLen ==
    IF Len(chat_display) >= Len(Scripted)
          /\ SubSeq(chat_display, 1, Len(Scripted)) = Scripted
    THEN Len(Scripted) ELSE 0

ErrorEntries ==
    {<<"assistant", <<"Error calling Gemini", ":", " ">> \o e>> : e \in RemoteErrors}

\* C4: every submitted chat message adds exactly one user entry followed by
\* exactly one assistant entry, whether the remote call returns or raises;
\* after a raise the assistant entry is the error text, and the chat input
\* accepts the next message.
C4_TurnAlwaysCompletes ==
    /\ pc = "idle" => Len(chat_display) = BaseLen + 2 * turns
    /\ pc # "idle" => Len(chat_display) = BaseLen + 2 * turns - 1
    /\ \A k \in 1..turns :
          /\ chat_display[BaseLen + 2 * k - 1][1] = "user"
          /\ (BaseLen + 2 * k <= Len(chat_display))
                => chat_display[BaseLen + 2 * k][1] = "assistant"
    /\ last_op = "chat_error" =>
          /\ pc = "idle"
          /\ LastEntry(chat_display) \in ErrorEntries
          /\ chat_display[Len(chat_display) - 1][1] = "user"
    /\ (last_op \in {"chat_error", "chat_reply"} /\ turns < MaxTurns) =>
          ENABLED (\E msg \in ChatInputs : ChatSubmit(msg))

\* C4 witness: a turn whose remote call raised, followed by a completed turn.
C4_Witness ==
    /\ pc = "idle"
    /\ last_op = "chat_reply"
    /\ Len(chat_display) = 4
    /\ chat_display[1][1] = "user"
    /\ chat_display[2] \in ErrorEntries
    /\ chat_display[3][1] = "user"
    /\ chat_display[4] = <<"assistant", <<"Both">> >>

C9_TurnOrderAndFreshQuotes ==
    /\ pc = "infer" =>
          /\ LastEntry(chat_display) = <<"user", chat_user>>
          /\ dynamic_ctx = NoValue /\ payload = NoValue /\ resp = NoValue
    /\ pc \in {"send", "reply"} =>
          /\ LastEntry(chat_display) = <<"user", chat_user>>
          /\ ~IsRaised(dynamic_ctx)
          /\ dynamic_ctx = infer_dynamic_context(chat_user, history_to_text(chat_display))
          /\ payload = [catalog |-> CATALOG, context |-> dynamic_ctx,
                        user_message |-> chat_user]
    /\ pc = "send" => resp = NoValue
    /\ pc = "reply" =>
          /\ resp \in RemoteOutcomes
          /\ ~IsRaised(resp) => chat_session[Len(chat_session)].sent = payload
    /\ (pc = "idle" /\ last_op = "chat_reply") =>
          LET n == Len(chat_display)
              sent == chat_session[Len(chat_session)].sent
          IN  /\ chat_display[n][1] = "assistant"
              /\ sent.user_message = chat_display[n - 1][2]
              /\ sent.context
                    = infer_dynamic_context(chat_display[n - 1][2],
                                            history_to_text(SubSeq(chat_display, 1, n - 1)))
    /\ pc = "idle" => (dynamic_ctx = NoValue /\ payload = NoValue /\ resp = NoValue)

\* C9 witness: the remote call of a second turn has returned; the payload it
\* was sent carries a bundle quote.
C9_Witness ==
    /\ pc = "reply"
    /\ turns = 2
    /\ ~IsRaised(resp)
    /\ "bundle_quote" \in DOMAIN payload.context.quotes
    /\ Len(chat_session) = 2

\* Everything selected or quoted as a bundle in a is so in b.
Grows(a, b) ==
    /\ \A i \in 1..Len(a.selected_plans) : InList(a.selected_plans[i], b.selected_plans)
    /\ ("bundle_quote" \in DOMAIN a.quotes) => ("bundle_quote" \in DOMAIN b.quotes)

\* The context the transcript text alone gives rise to.
TranscriptContext(history_text) == infer_dynamic_context(<< >>, history_text)

\* C10 as claimed: the context inferred in a turn holds every plan and the
\* bundle quote of the context inferred in the turn before it.
C10_ContextOnlyGrows ==
    (pc = "send" /\ last_turn # NoValue) =>
        Grows(infer_dynamic_context(last_turn.user_text, last_turn.history_text),
              dynamic_ctx)

\* C10 amended: a plan or bundle quote that the transcript text of one turn
\* (the rendered history, that turn's user entry included) gives rise to is
\* in the context of every later turn up to the next replacement of the
\* transcript.
C10_TranscriptContextOnlyGrows ==
    last_turn # NoValue =>
        /\ Grows(TranscriptContext(last_turn.history_text),
                 TranscriptContext(history_to_text(chat_display)))
        /\ pc \in {"send", "reply"} =>
              /\ Grows(TranscriptContext(last_turn.history_text), dynamic_ctx)
              /\ Grows(TranscriptContext(history_to_text(chat_display)), dynamic_ctx)

\* C10 witness: a second turn whose message names no plan still selects the
\* plan named in the first turn.
C10_Witness ==
    /\ pc = "send"
    /\ turns = 2
    /\ BaseLen = 0
    /\ chat_user = <<"x">>
    /\ chat_display[1] = <<"user", <<"Diabetes">> >>
    /\ chat_display[2] = <<"assistant", <<"(No response)">> >>
    /\ dynamic_ctx.selected_plans = <<"Diabetes Care">>

====
